---- MODULE Spec2Model ----
(***************************************************************************)
(* MedMind blood test analyzer: the panel parser of main.py and the        *)
(* history store, trend analyzer and comparison engine of database.py.     *)
(*                                                                         *)
(* Time is counted in days; two rows carry the same created_at when the    *)
(* clock (datetime.utcnow) returned the same instant for both.  A float    *)
(* read from a document is a non-negative number (the patterns of          *)
(* parse_test_value capture digits only); a percent change is kept as the  *)
(* exact fraction num/den.                                                 *)
(***************************************************************************)
EXTENDS Integers, Sequences, FiniteSets, TLC

VARIABLES
    reference_ranges,   \* main.py:66, the catalog loaded at startup
    test_sessions,      \* table test_sessions, in insertion (id) order
    test_results,       \* table test_results, in insertion (id) order
    now,                \* the clock read by datetime.utcnow
    response,           \* what the last request returned to its caller
    calls               \* for each worker, the database call it is in

vars == <<reference_ranges, test_sessions, test_results, now, response, calls>>

----------------------------------------------------------------------------
(* Bounds of the model *)

MaxSessions == 3        \* stored sessions, all users together
MaxSeries == 3          \* stored results of the trend specification

(* Constants of the program *)

StableThreshold == 5    \* abs(percent_change) < 5
DaysPerMonth == 30      \* timedelta(days=months * 30)
MaxUploadBytes == 10485760   \* 10 * 1024 * 1024
RecentLimit == 2        \* .limit(2) of compare_latest_tests

Users == {"u1", "u2"}

----------------------------------------------------------------------------
(* Arithmetic *)

Abs(x) == IF x < 0 THEN -x ELSE x

Min(S) == CHOOSE x \in S : \A y \in S : x <= y

Max(S) == CHOOSE x \in S : \A y \in S : x >= y

Range(f) == {f[i] : i \in DOMAIN f}

\* the sequences that list every element of the finite set S exactly once
Perms(S) ==
    {f \in [1..Cardinality(S) -> S] : \A x \in S : \E i \in DOMAIN f : f[i] = x}

\* the quotient without the test of previous
percent_change_unguarded(change, previous) ==
    [num |-> change * 100, den |-> previous]

\* (change / previous) * 100 if previous != 0 else 0
percent_change(change, previous) ==
    IF previous # 0
    THEN [num |-> change * 100, den |-> previous]
    ELSE [num |-> 0, den |-> 1]

\* abs(p) < bound, abs(p) >= abs(q) for fractions p and q
AbsBelow(p, bound) == Abs(p.num) < bound * Abs(p.den)

AbsGeq(p, q) == Abs(p.num) * Abs(q.den) >= Abs(q.num) * Abs(p.den)

IsZero(p) == p.num = 0

Negated(p, q) == p.num * q.den = -(q.num * p.den)

----------------------------------------------------------------------------
(* Document text.  A text is a sequence of tokens: a word, a number (a run *)
(* of digits with an optional fraction, as \d+\.?\d* captures it), a       *)
(* space, a newline, one of the separators : - = or another punctuation    *)
(* character.  Words are whole words: no word of a document holds an alias *)
(* as a proper part.                                                       *)

Tok(k, s, n) == [k |-> k, s |-> s, n |-> n]

W(s) == Tok("word", s, 0)

N(n) == Tok("num", "", n)

SP == Tok("sp", "", 0)

NL == Tok("nl", "", 0)

COLON == Tok("colon", "", 0)

DASH == Tok("dash", "", 0)

EQ == Tok("eq", "", 0)

IsSpace(t) == t.k \in {"sp", "nl"}

IsWordChar(t) == t.k \in {"word", "num"}

\* re.IGNORECASE: the words of the model, folded to lower case
Fold(s) ==
    CASE s \in {"Glucose", "GLUCOSE", "glucose"} -> "glucose"
      [] s \in {"GLU", "Glu", "glu"} -> "glu"
      [] s \in {"HDL", "hdl"} -> "hdl"
      [] s \in {"Hgb", "HGB", "hgb"} -> "hgb"
      [] s \in {"Hemoglobin", "hemoglobin"} -> "hemoglobin"
      [] OTHER -> s

\* main.py:197-270, the rows of test_variants for the names of the model;
\* an alias is the sequence of its words, which single spaces separate
test_variants(test_name) ==
    CASE test_name = "Hemoglobin" ->
            << <<"Hemoglobin">>, <<"Hgb">>, <<"Hb">>, <<"HGB">> >>
      [] test_name = "Glucose" ->
            << <<"Glucose">>, <<"GLU">>, <<"Blood", "Sugar">>, <<"BS">> >>
      [] test_name = "HbA1c" ->
            << <<"HbA1c">>, <<"A1C">>, <<"Hemoglobin", "A1c">>,
               <<"Glycated", "Hemoglobin">> >>
      [] test_name = "eGFR" ->
            << <<"eGFR">>, <<"GFR">>, <<"Estimated", "GFR">> >>
      [] test_name = "Total Cholesterol" ->
            << <<"Total", "Cholesterol">>, <<"Cholesterol">>, <<"CHOL">>,
               <<"TC">> >>
      [] test_name = "HDL" ->
            << <<"HDL">>, <<"HDL", "Cholesterol">>, <<"Good", "Cholesterol">> >>
      [] test_name = "LDL" ->
            << <<"LDL">>, <<"LDL", "Cholesterol">>, <<"Bad", "Cholesterol">> >>
      [] test_name = "Triglycerides" ->
            << <<"Triglycerides">>, <<"TG">>, <<"TRIG">> >>
      [] OTHER -> << <<test_name>> >>

\* the variant stands in the text with its first word at token s
Occurs(text, variant, s) ==
    /\ s >= 1
    /\ s + 2 * (Len(variant) - 1) <= Len(text)
    /\ \A k \in 1..Len(variant) :
          /\ text[s + 2 * (k - 1)].k = "word"
          /\ Fold(text[s + 2 * (k - 1)].s) = Fold(variant[k])
          /\ k < Len(variant) => text[s + 2 * k - 1].k = "sp"

RECURSIVE SkipSpace(_, _)
\* \s* from token j on: the first token that is no white space
SkipSpace(text, j) ==
    IF j <= Len(text) /\ IsSpace(text[j]) THEN SkipSpace(text, j + 1) ELSE j

\* (\d+\.?\d*) at token j: float(match.group(1)), or nothing
NumAt(text, j) ==
    IF j <= Len(text) /\ text[j].k = "num" THEN <<text[j].n>> ELSE <<>>

\* \s*[seps]?\s*(\d+\.?\d*) from token j on
AfterSeparator(text, j, seps) ==
    LET a == SkipSpace(text, j)
        b == IF a <= Len(text) /\ text[a].k \in seps THEN a + 1 ELSE a
    IN  NumAt(text, SkipSpace(text, b))

RECURSIVE FirstNumOnLine(_, _)
\* .*?(\d+\.?\d*) from token j on: the dot matches no newline
FirstNumOnLine(text, j) ==
    IF j > Len(text) \/ text[j].k = "nl" THEN <<>>
    ELSE IF text[j].k = "num" THEN <<text[j].n>>
    ELSE FirstNumOnLine(text, j + 1)

\* main.py:277-283, pattern p of the list with the variant at tokens s..e
MatchAt(p, text, s, e) ==
    CASE p = 1 -> AfterSeparator(text, e + 1, {"colon"})
      [] p = 2 -> IF e + 1 <= Len(text) /\ IsSpace(text[e + 1])
                  THEN NumAt(text, SkipSpace(text, e + 1))
                  ELSE <<>>
      [] p = 3 -> FirstNumOnLine(text, e + 1)
      [] p = 4 -> AfterSeparator(text, e + 1, {"colon", "dash", "eq"})
      [] p = 5 -> IF /\ (s = 1 \/ ~IsWordChar(text[s - 1]))
                     /\ (e = Len(text) \/ ~IsWordChar(text[e + 1]))
                  THEN AfterSeparator(text, e + 1, {"colon", "dash", "eq"})
                  ELSE <<>>

NumPatterns == 5

RECURSIVE search_from(_, _, _, _)
\* the scan of re.search from token s on
search_from(p, variant, text, s) ==
    IF s > Len(text) THEN <<>>
    ELSE IF Occurs(text, variant, s)
    THEN LET m == MatchAt(p, text, s, s + 2 * (Len(variant) - 1))
         IN  IF m # <<>> THEN m ELSE search_from(p, variant, text, s + 1)
    ELSE search_from(p, variant, text, s + 1)

\* re.search(pattern, text, re.IGNORECASE): the leftmost match
re_search(p, variant, text) == search_from(p, variant, text, 1)

RECURSIVE try_patterns(_, _, _)
\* main.py:285-291, the loop over the patterns from pattern p on
try_patterns(text, variant, p) ==
    IF p > NumPatterns THEN <<>>
    ELSE LET m == re_search(p, variant, text)
         IN  IF m # <<>> THEN m ELSE try_patterns(text, variant, p + 1)

\* the search that goes through the patterns first and, for each pattern,
\* through the variants from the v-th on
try_variants_pattern_first(text, variants, v) ==
    LET hits == {h \in (1..NumPatterns) \X (v..Len(variants)) :
                    re_search(h[1], variants[h[2]], text) # <<>>}
        first == CHOOSE h \in hits :
                    \A g \in hits : h[1] < g[1] \/ (h[1] = g[1] /\ h[2] <= g[2])
    IN  IF hits = {} THEN <<>>
        ELSE re_search(first[1], variants[first[2]], text)

RECURSIVE try_variants(_, _, _)
\* main.py:276-293, the loop over the variants from the v-th on
try_variants(text, variants, v) ==
    IF v > Len(variants) THEN <<>>
    ELSE LET m == try_patterns(text, variants[v], 1)
         IN  IF m # <<>> THEN m ELSE try_variants(text, variants, v + 1)

\* main.py:193-293: <<value>>, or <<>> for None
parse_test_value(text, test_name) ==
    try_variants(text, test_variants(test_name), 1)

----------------------------------------------------------------------------
(* Reference catalog and panel parser (main.py).  An entry of the catalog  *)
(* is [test, keys, low, high, unit]: keys holds the fields the JSON object *)
(* of the entry has, and reading a field outside keys raises KeyError.     *)

RequiredKeys == {"low", "high", "unit"}

Entry(test, keys, low, high, unit) ==
    [test |-> test, keys |-> keys, low |-> low, high |-> high, unit |-> unit]

\* the classification with the bounds of the range left out of Normal
status_short_exclusive(value, ref) ==
    IF value <= ref.low THEN "Low"
    ELSE IF value >= ref.high THEN "High"
    ELSE "Normal"

\* main.py:309-314
status_short(value, ref) ==
    IF value < ref.low THEN "Low"
    ELSE IF value > ref.high THEN "High"
    ELSE "Normal"

Msg(label, advice) == [label |-> label, advice |-> advice]

\* the three-way message of most categories
ThreeWay(value, ref, low, high, normal) ==
    IF value < ref.low THEN Msg("Low", low)
    ELSE IF value > ref.high THEN Msg("High", high)
    ELSE Msg("Normal", normal)

\* main.py:91-191; a message is its label and the advice after the dash
get_status_message(test, value, ref) ==
    IF test \in {"Glucose", "HbA1c"} THEN
        ThreeWay(value, ref, "Blood sugar is below normal.",
                 "Blood sugar is elevated.",
                 "Blood sugar levels are within healthy range.")
    ELSE IF test \in {"Total Cholesterol", "LDL", "HDL", "Triglycerides"} THEN
        IF test = "HDL" THEN
            IF value < ref.low
            THEN Msg("Low", "Good cholesterol is low.")
            ELSE Msg("Normal", "Good cholesterol levels are adequate.")
        ELSE IF test = "LDL" THEN
            IF value > ref.high
            THEN Msg("High", "Bad cholesterol is elevated.")
            ELSE Msg("Normal", "Bad cholesterol is within healthy range.")
        ELSE
            ThreeWay(value, ref, "Below normal range.", "Elevated levels.",
                     "Within healthy range for cardiovascular health.")
    ELSE IF test \in {"Iron", "Ferritin", "TIBC", "Transferrin Saturation"} THEN
        ThreeWay(value, ref, "May indicate iron deficiency.",
                 "Elevated iron levels.",
                 "Iron levels are within healthy range.")
    ELSE IF test \in {"Vitamin D", "Vitamin B12", "Folate"} THEN
        ThreeWay(value, ref, "Vitamin deficiency detected.",
                 "Vitamin levels are elevated.",
                 "Vitamin levels are adequate.")
    ELSE IF test \in {"TSH", "T3", "T4", "Free T4", "Free T3"} THEN
        ThreeWay(value, ref, "May indicate hyperthyroidism.",
                 "May indicate hypothyroidism.",
                 "Thyroid function appears normal.")
    ELSE IF test \in {"ALT", "AST", "ALP", "GGT"} THEN
        ThreeWay(value, ref, "Below normal range.",
                 "Liver enzymes are elevated.",
                 "Liver function appears normal.")
    ELSE IF test \in {"BUN", "Creatinine", "eGFR"} THEN
        IF test = "eGFR" THEN
            IF value < ref.low
            THEN Msg("Low", "Kidney function may be reduced.")
            ELSE Msg("Normal", "Kidney function appears normal.")
        ELSE
            ThreeWay(value, ref, "Below normal range.",
                     "May indicate reduced kidney function.",
                     "Kidney function markers are within healthy range.")
    ELSE IF test \in {"Hemoglobin", "Hematocrit", "RBC", "Iron", "Ferritin"} THEN
        ThreeWay(value, ref, "May indicate anemia or iron deficiency.",
                 "Elevated levels.",
                 "Blood count is within healthy range.")
    ELSE IF test \in {"WBC", "Neutrophils", "Lymphocytes"} THEN
        ThreeWay(value, ref, "White blood cell count is low.",
                 "White blood cell count is elevated.",
                 "Immune system markers are within healthy range.")
    ELSE
        ThreeWay(value, ref, "Below normal range.", "Above normal range.",
                 "Within healthy range.")

\* f"{ref['low']} - {ref['high']} {ref['unit']}": the three parts in order
format_range(ref) == <<ref.low, ref.high, ref.unit>>

\* main.py:316-323, the result of one catalog entry
blood_test_result(ref, value) ==
    [test |-> ref.test,
     value |-> value,
     unit |-> ref.unit,
     range |-> format_range(ref),
     status |-> get_status_message(ref.test, value, ref),
     status_short |-> status_short(value, ref)]

\* lines 311-323 read ref["low"], ref["high"] and ref["unit"]: KeyError
entry_raises(ref) == ~(RequiredKeys \subseteq ref.keys)

\* main.py:304-328, one pass of the loop; acc is [results, found_tests]
parse_entry(text, ref, acc) ==
    LET value == parse_test_value(text, ref.test)
    IN  IF value = <<>> THEN acc
        ELSE IF entry_raises(ref)
        THEN [acc EXCEPT !.found_tests = @ + 1]
        ELSE [results |-> Append(acc.results, blood_test_result(ref, value[1])),
              found_tests |-> acc.found_tests + 1]

RECURSIVE parse_loop(_, _, _)
parse_loop(text, catalog, acc) ==
    IF catalog = <<>> THEN acc
    ELSE parse_loop(text, Tail(catalog), parse_entry(text, Head(catalog), acc))

NoText == "No text provided for parsing"

NoValues == "No blood test values could be extracted from the document"

\* text.strip() is empty
is_blank(text) == \A i \in DOMAIN text : IsSpace(text[i])

\* the parser without the check of found_tests
parse_blood_tests_unchecked(text, catalog) ==
    IF is_blank(text)
    THEN [ok |-> FALSE, error |-> NoText, results |-> <<>>]
    ELSE [ok |-> TRUE, error |-> "",
          results |-> parse_loop(text, catalog,
                          [results |-> <<>>, found_tests |-> 0]).results]

\* main.py:296-335: the results, or the ValueError raised
parse_blood_tests(text, catalog) ==
    IF is_blank(text)
    THEN [ok |-> FALSE, error |-> NoText, results |-> <<>>]
    ELSE LET acc == parse_loop(text, catalog,
                               [results |-> <<>>, found_tests |-> 0])
         IN  IF acc.found_tests = 0
             THEN [ok |-> FALSE, error |-> NoValues, results |-> <<>>]
             ELSE [ok |-> TRUE, error |-> "", results |-> acc.results]

CountIf(seq, P(_)) == Cardinality({i \in DOMAIN seq : P(seq[i])})

\* main.py:337-351
generate_summary_message(results) ==
    LET high_count == CountIf(results, LAMBDA r : r.status_short = "High")
        low_count == CountIf(results, LAMBDA r : r.status_short = "Low")
    IN  [all_normal |-> ~(high_count > 0 \/ low_count > 0),
         high_count |-> high_count,
         low_count |-> low_count]

----------------------------------------------------------------------------
(* History store (database.py).  A table is the sequence of its rows in    *)
(* insertion order, and a row's id is its place in it.  The field          *)
(* stored_with of a result row is not a column: it records the session of  *)
(* the store_test_results call that added the row, and no operation of the *)
(* program reads it.                                                       *)

\* float(result["range"].split(" - ")[0])
range_low(range) == range[1]

\* float(result["range"].split(" - ")[1].split(" ")[0])
range_high(range) == range[2]

\* the session row with every result counted as normal
new_session_all_normal(id, user_id, filename, results, summary_message, created_at) ==
    [id |-> id,
     user_id |-> user_id,
     filename |-> filename,
     total_tests |-> Len(results),
     normal_count |-> Len(results),
     abnormal_count |-> 0,
     summary_message |-> summary_message,
     created_at |-> created_at]

\* database.py:97-107
new_session(id, user_id, filename, results, summary_message, created_at) ==
    LET normal_count == CountIf(results, LAMBDA r : r.status_short = "Normal")
    IN  [id |-> id,
         user_id |-> user_id,
         filename |-> filename,
         total_tests |-> Len(results),
         normal_count |-> normal_count,
         abnormal_count |-> Len(results) - normal_count,
         summary_message |-> summary_message,
         created_at |-> created_at]

\* database.py:115-124
new_result(id, user_id, filename, result, created_at, session_id) ==
    [id |-> id,
     user_id |-> user_id,
     test_name |-> result.test,
     value |-> result.value,
     unit |-> result.unit,
     reference_low |-> range_low(result.range),
     reference_high |-> range_high(result.range),
     status |-> result.status_short,
     created_at |-> created_at,
     filename |-> filename,
     stored_with |-> session_id]

\* the instants the rows of one store_test_results call can get when the
\* clock stood at t0 the last time it was read: every INSERT reads the
\* clock, which moves on at most once between that read and the commit
Stamps(t0, n) ==
    {[i \in 1..(n + 1) |-> IF i < k THEN t0 ELSE t0 + 1] : k \in 1..(n + 2)}

\* a store that keeps only the rows of the last upload
store_test_results_replacing(S, R, user_id, filename, results, summary_message, stamps) ==
    [sessions |-> << new_session(1, user_id, filename, results,
                                 summary_message, stamps[1]) >>,
     results |-> [i \in 1..Len(results) |->
                     new_result(i, user_id, filename, results[i],
                                stamps[i + 1], 1)],
     session_id |-> 1]

\* database.py:95-129, the tables after the commit; stamps[1] is the
\* created_at of the session row, stamps[i + 1] that of the i-th result
store_test_results(S, R, user_id, filename, results, summary_message, stamps) ==
    LET session_id == Len(S) + 1
        session == new_session(session_id, user_id, filename, results,
                               summary_message, stamps[1])
        rows == [i \in 1..Len(results) |->
                    new_result(Len(R) + i, user_id, filename, results[i],
                               stamps[i + 1], session_id)]
    IN  [sessions |-> Append(S, session),
         results |-> R \o rows,
         session_id |-> session_id]

\* the rows of a table that pass a filter
Rows(T, P(_)) == {T[i] : i \in {j \in DOMAIN T : P(T[j])}}

\* the orders in which ORDER BY created_at can return the rows: rows of
\* equal created_at come in either order
OrderedAsc(rows) ==
    {f \in Perms(rows) :
        \A i, j \in DOMAIN f : i < j => f[i].created_at <= f[j].created_at}

OrderedDesc(rows) ==
    {f \in Perms(rows) :
        \A i, j \in DOMAIN f : i < j => f[i].created_at >= f[j].created_at}

Limit(f, n) == SubSeq(f, 1, IF Len(f) < n THEN Len(f) ELSE n)


\* database.py:158-175, the lists get_user_history can return
get_user_history(S, user_id, limit) ==
    LET rows == Rows(S, LAMBDA r : r.user_id = user_id)
        entry(r) == [id |-> r.id,
                     filename |-> r.filename,
                     total_tests |-> r.total_tests,
                     normal_count |-> r.normal_count,
                     abnormal_count |-> r.abnormal_count,
                     summary_message |-> r.summary_message,
                     date |-> r.created_at]
    IN  {[i \in DOMAIN Limit(f, limit) |-> entry(f[i])] : f \in OrderedDesc(rows)}

\* the favourable-direction table of database.py:252-263 and 363-368
LowerIsBetter ==
    {"Total Cholesterol", "LDL", "Triglycerides", "Glucose", "HbA1c"}

HigherIsBetter == {"HDL"}

\* the trend with a change of exactly the threshold taken as stable
trend_of_inclusive(change, pct) ==
    IF Abs(pct.num) <= StableThreshold * Abs(pct.den) THEN "stable"
    ELSE IF change > 0 THEN "increasing"
    ELSE "decreasing"

\* database.py:233-244
trend_of(change, pct) ==
    IF AbsBelow(pct, StableThreshold) THEN "stable"
    ELSE IF change > 0 THEN "increasing"
    ELSE "decreasing"

\* database.py:251-263
improvement_context(test_name, trend) ==
    IF test_name \in LowerIsBetter THEN
        IF trend = "decreasing" THEN "Good trend"
        ELSE IF trend = "increasing" THEN "Monitor closely"
        ELSE ""
    ELSE IF test_name \in HigherIsBetter THEN
        IF trend = "increasing" THEN "Good trend"
        ELSE IF trend = "decreasing" THEN "Monitor closely"
        ELSE ""
    ELSE ""

\* database.py:226, values[-1]
latest_value(values) == values[Len(values)]

\* previous_value read from the oldest point of the series
previous_value_oldest(values) == values[1]

\* database.py:227, values[-2]
previous_value(values) == values[Len(values) - 1]

\* database.py:209-280, the report over the rows the query returned
trend_report(results, test_name, months) ==
    LET values == [i \in DOMAIN results |-> results[i].value]
        dates == [i \in DOMAIN results |-> results[i].created_at]
    IN  IF results = <<>> THEN
            [test_name |-> test_name, trend |-> "no_data"]
        ELSE IF Len(values) < 2 THEN
            [test_name |-> test_name,
             trend |-> "insufficient_data",
             latest_value |-> values[1],
             latest_date |-> dates[1],
             unit |-> results[1].unit]
        ELSE
            LET latest == latest_value(values)
                previous == previous_value(values)
                change == latest - previous
                pct == percent_change(change, previous)
                trend == trend_of(change, pct)
            IN  [test_name |-> test_name,
                 trend |-> trend,
                 improvement_context |-> improvement_context(test_name, trend),
                 latest_value |-> latest,
                 previous_value |-> previous,
                 change |-> change,
                 percent_change |-> pct,
                 values |-> values,
                 dates |-> dates,
                 unit |-> results[1].unit,
                 reference_range |-> <<results[Len(results)].reference_low,
                                       results[Len(results)].reference_high>>,
                 total_measurements |-> Len(values),
                 timespan_months |-> months]

\* database.py:201
cutoff_date(clock, months) == clock - months * DaysPerMonth

\* the rows of the query with the instant of the cutoff left out
trend_rows_after_cutoff(R, user_id, test_name, cutoff) ==
    Rows(R, LAMBDA r : /\ r.user_id = user_id
                       /\ r.test_name = test_name
                       /\ r.created_at > cutoff)

\* database.py:203-207, the rows of the query
trend_rows(R, user_id, test_name, cutoff) ==
    Rows(R, LAMBDA r : /\ r.user_id = user_id
                       /\ r.test_name = test_name
                       /\ r.created_at >= cutoff)

\* database.py:181-284, the reports get_test_trends can return
get_test_trends(R, user_id, test_name, months, clock) ==
    {trend_report(f, test_name, months) :
        f \in OrderedAsc(trend_rows(R, user_id, test_name,
                                    cutoff_date(clock, months)))}


\* the session query without its filter on the user
recent_sessions_all_users(S, user_id) ==
    {Limit(f, RecentLimit) : f \in OrderedDesc(Rows(S, LAMBDA r : TRUE))}

\* database.py:305-307, the lists the session query can return
recent_sessions(S, user_id) ==
    {Limit(f, RecentLimit) :
        f \in OrderedDesc(Rows(S, LAMBDA r : r.user_id = user_id))}

\* the latest results without the filter on the user
latest_results_all_users(R, user_id, latest_session) ==
    Rows(R, LAMBDA r : r.created_at >= latest_session.created_at)

\* database.py:319-322
latest_results(R, user_id, latest_session) ==
    Rows(R, LAMBDA r : /\ r.user_id = user_id
                       /\ r.created_at >= latest_session.created_at)

\* the previous results without the lower end of their interval
previous_results_unbounded(R, user_id, latest_session, previous_session) ==
    Rows(R, LAMBDA r : /\ r.user_id = user_id
                       /\ r.created_at < latest_session.created_at)

\* database.py:324-328
previous_results(R, user_id, latest_session, previous_session) ==
    Rows(R, LAMBDA r : /\ r.user_id = user_id
                       /\ r.created_at >= previous_session.created_at
                       /\ r.created_at < latest_session.created_at)

TestNames(rows) == {r.test_name : r \in rows}

\* database.py:331-332, {r.test_name: r for r in rows}: the row kept for a
\* name is the last one of that name in the order of a query that states
\* no order
lookup_dicts(rows) ==
    {d \in [TestNames(rows) -> rows] : \A n \in TestNames(rows) : d[n].test_name = n}

\* database.py:350-359
change_type_of(change, pct) ==
    IF AbsBelow(pct, StableThreshold) THEN "stable"
    ELSE IF change > 0 THEN "increased"
    ELSE "decreased"

\* database.py:362-368
is_improvement_of(test_name, change) ==
    IF test_name \in LowerIsBetter THEN change < 0
    ELSE IF test_name \in HigherIsBetter THEN change > 0
    ELSE FALSE

\* database.py:343-388, the diff record of one common test
comparison_of(test_name, latest, previous) ==
    LET change == latest.value - previous.value
        pct == percent_change(change, previous.value)
    IN  [test_name |-> test_name,
         latest_value |-> latest.value,
         previous_value |-> previous.value,
         change |-> change,
         percent_change |-> pct,
         change_type |-> change_type_of(change, pct),
         is_improvement |-> is_improvement_of(test_name, change),
         unit |-> latest.unit,
         latest_status |-> latest.status,
         previous_status |-> previous.status]

\* database.py:353
counts_stable(c) == c.change_type = "stable"

\* database.py:370-372
counts_improvement(c) == c.change_type # "stable" /\ c.is_improvement

\* database.py:370-374
counts_deterioration(c) == c.change_type # "stable" /\ ~c.is_improvement

RECURSIVE insert_desc(_, _)
\* x goes behind every record whose key is at least its own
insert_desc(sorted, x) ==
    IF sorted = <<>> THEN <<x>>
    ELSE IF AbsGeq(Head(sorted).percent_change, x.percent_change)
    THEN <<Head(sorted)>> \o insert_desc(Tail(sorted), x)
    ELSE <<x>> \o sorted

\* the list left in the order the records were appended
sort_comparisons_none(list) == list

RECURSIVE sort_comparisons(_)
\* database.py:391, list.sort(key=abs(percent_change), reverse=True): stable
sort_comparisons(list) ==
    IF list = <<>> THEN <<>>
    ELSE insert_desc(sort_comparisons(SubSeq(list, 1, Len(list) - 1)),
                     list[Len(list)])

\* the verdict with equal counts taken as improving
overall_trend_of_ties(improvements, deteriorations) ==
    IF improvements >= deteriorations THEN "improving"
    ELSE "concerning"

\* database.py:396-407
overall_trend_of(improvements, deteriorations) ==
    IF improvements > deteriorations THEN "improving"
    ELSE IF deteriorations > improvements THEN "concerning"
    ELSE "mixed"

NoComparison ==
    [has_comparison |-> FALSE,
     message |-> "Need at least 2 test sessions for comparison"]

\* database.py:337-422, the report for one outcome of the queries: the two
\* sessions, the two lookups and the order in which the set common_tests
\* is walked
comparison_report(latest_session, previous_session, latest_dict, previous_dict, order) ==
    LET unsorted == [i \in DOMAIN order |->
                        comparison_of(order[i], latest_dict[order[i]],
                                      previous_dict[order[i]])]
        improvements == CountIf(unsorted, counts_improvement)
        deteriorations == CountIf(unsorted, counts_deterioration)
        stable == CountIf(unsorted, counts_stable)
        comparisons == sort_comparisons(unsorted)
    IN  [has_comparison |-> TRUE,
         latest_date |-> latest_session.created_at,
         previous_date |-> previous_session.created_at,
         days_between |-> latest_session.created_at - previous_session.created_at,
         overall_trend |-> overall_trend_of(improvements, deteriorations),
         improvements |-> improvements,
         deteriorations |-> deteriorations,
         stable |-> stable,
         total_compared |-> Len(comparisons),
         comparisons |-> comparisons]

\* database.py:286-426, the reports compare_latest_tests can return
compare_latest_tests(S, R, user_id) ==
    UNION {
        IF Len(recent) < 2 THEN {NoComparison}
        ELSE LET latest == latest_results(R, user_id, recent[1])
                 previous == previous_results(R, user_id, recent[1], recent[2])
                 common_tests == TestNames(latest) \cap TestNames(previous)
             IN  {comparison_report(recent[1], recent[2], ld, pd, order) :
                     ld \in lookup_dicts(latest),
                     pd \in lookup_dicts(previous),
                     order \in Perms(common_tests)}
        : recent \in recent_sessions(S, user_id)}

\* database.py:445-480
get_user_stats(S, R, user_id) ==
    LET sessions == Rows(S, LAMBDA r : r.user_id = user_id)
        results == Rows(R, LAMBDA r : r.user_id = user_id)
        session_count == Cardinality(sessions)
        first == Min({r.created_at : r \in sessions})
        latest == Max({r.created_at : r \in sessions})
    IN  IF session_count = 0 THEN [has_data |-> FALSE]
        ELSE [has_data |-> TRUE,
              session_count |-> session_count,
              total_tests |-> Cardinality(results),
              unique_test_types |-> Cardinality(TestNames(results)),
              tracking_days |-> latest - first,
              first_test_date |-> first,
              latest_test_date |-> latest]

----------------------------------------------------------------------------
(* The service: a catalog of two measurements, uploads of a few documents *)

Units == "mg/dL"

\* one line "Name: value" of a report
Line(name, value) == <<W(name), COLON, SP, N(value), NL>>

SystemCatalog ==
    << Entry("Glucose", RequiredKeys, 20, 21, Units),
       Entry("HDL", RequiredKeys, 20, 21, Units) >>

SystemTexts ==
    { Line("Glucose", 20) \o Line("HDL", 20),
      Line("Glucose", 22),
      <<W("Name"), COLON, SP, W("Doe"), NL>>,
      <<NL>> }

Upload(filename, size, text) ==
    [filename |-> filename, size |-> size, text |-> text]

SystemUploads ==
    {Upload("report.pdf", 1024, t) : t \in SystemTexts}
        \cup {Upload("report.txt", 1024, Line("Glucose", 22)),
              Upload("report.pdf", MaxUploadBytes + 1, Line("Glucose", 22))}

\* parse_blood_tests of the service's uploads, computed once
SystemParsed ==
    [f \in SystemUploads |-> parse_blood_tests(f.text, SystemCatalog)]

\* parse_blood_tests(content) of main.py:397
parse_upload(upload, catalog) ==
    IF catalog = SystemCatalog /\ upload \in SystemUploads
    THEN SystemParsed[upload]
    ELSE parse_blood_tests(upload.text, catalog)

----------------------------------------------------------------------------
(* The requests of main.py.  A response names the request (the operation,  *)
(* the user it came from, its arguments) and holds what the caller gets:   *)
(* the status and detail of the HTTPException raised, or status 200 and    *)
(* the body returned.  logged is the error the handler wrote to its log.   *)

Response(op, user, request, status, detail, logged, body) ==
    [op |-> op, user |-> user, request |-> request, status |-> status,
     detail |-> detail, logged |-> logged, body |-> body]

NoBody == [empty |-> TRUE]

NotPdf == "Only PDF files are supported"

TooLarge == "File size too large. Maximum 10MB allowed."

ExtractFailed == "Failed to extract text from PDF"

InternalError == "Internal server error occurred during analysis"

\* the exception of a commit the database refuses
DatabaseError == "database error"

\* file.filename.lower().endswith('.pdf'), for the file names of the model
is_pdf_name(filename) == filename \in {"report.pdf", "REPORT.PDF"}

CatalogNames(catalog) == {catalog[i].test : i \in DOMAIN catalog}

\* main.py:372-441.  The uploaded file is its name, its size and the text
\* pdfplumber extracts from it; parsed is parse_blood_tests of that text,
\* commit_ok whether the database accepts the transaction
analyze_pdf(user_id, filename, size, text, parsed, commit_ok) ==
    LET upload == [filename |-> filename, size |-> size, text |-> text]
        reject(status, detail, logged) ==
            /\ response' = Response("analyze", user_id, upload, status, detail,
                                    logged, NoBody)
            /\ UNCHANGED <<reference_ranges, test_sessions, test_results, now, calls>>
    IN  IF ~is_pdf_name(filename) THEN reject(400, NotPdf, "")
        ELSE IF size > MaxUploadBytes THEN reject(400, TooLarge, "")
        ELSE IF is_blank(text) THEN reject(400, ExtractFailed, ExtractFailed)
        ELSE IF ~parsed.ok THEN reject(500, InternalError, parsed.error)
        ELSE IF ~commit_ok THEN reject(500, InternalError, DatabaseError)
        ELSE
            /\ Len(test_sessions) < MaxSessions
            /\ \E stamps \in Stamps(now, Len(parsed.results)),
                  summary \in {generate_summary_message(parsed.results)} :
                 \E stored \in {store_test_results(test_sessions, test_results,
                                   user_id, filename, parsed.results, summary,
                                   stamps)} :
                     /\ test_sessions' = stored.sessions
                     /\ test_results' = stored.results
                     /\ now' = stamps[Len(stamps)]
                     /\ \E comparison \in compare_latest_tests(stored.sessions,
                                              stored.results, user_id) :
                          response' = Response("analyze", user_id, upload, 200,
                              "", "",
                              [message |-> summary,
                               total_tests_found |-> Len(parsed.results),
                               total_tests_available |-> Len(reference_ranges),
                               results |-> parsed.results,
                               filename |-> filename,
                               session_id |-> stored.session_id,
                               comparison |-> comparison,
                               user_stats |-> get_user_stats(stored.sessions,
                                                  stored.results, user_id)])
                     /\ UNCHANGED <<reference_ranges, calls>>

\* POST /analyze with the given file, from any user
AnalyzePdf(upload) ==
    \E parsed \in {parse_upload(upload, reference_ranges)} :
        \E user_id \in Users, commit_ok \in BOOLEAN :
            analyze_pdf(user_id, upload.filename, upload.size, upload.text,
                        parsed, commit_ok)

\* main.py:452-481
GetHistory(user_id, limit) ==
    /\ \E history \in get_user_history(test_sessions, user_id, limit) :
         response' = Response("history", user_id, [limit |-> limit], 200, "", "",
             [user_stats |-> get_user_stats(test_sessions, test_results, user_id),
              history |-> history,
              total_sessions |-> Len(history)])
    /\ UNCHANGED <<reference_ranges, test_sessions, test_results, now, calls>>

\* main.py:483-514
GetTrends(user_id, test_name, months) ==
    /\ LET request == [test_name |-> test_name, months |-> months]
       IN  IF test_name \notin CatalogNames(reference_ranges)
           THEN response' = Response("trends", user_id, request, 404,
                                     "Test not found", "", NoBody)
           ELSE \E trends \in get_test_trends(test_results, user_id,
                                              test_name, months, now) :
                    response' = Response("trends", user_id, request, 200,
                                         "", "", trends)
    /\ UNCHANGED <<reference_ranges, test_sessions, test_results, now, calls>>

\* main.py:516-537
GetComparison(user_id) ==
    /\ \E comparison \in compare_latest_tests(test_sessions, test_results, user_id) :
         response' = Response("comparison", user_id, NoBody, 200, "", "",
                              comparison)
    /\ UNCHANGED <<reference_ranges, test_sessions, test_results, now, calls>>

\* main.py:539-560
GetStats(user_id) ==
    /\ response' = Response("stats", user_id, NoBody, 200, "", "",
                       get_user_stats(test_sessions, test_results, user_id))
    /\ UNCHANGED <<reference_ranges, test_sessions, test_results, now, calls>>

----------------------------------------------------------------------------
(* The specification of the service *)

HistoryLimits == {1, 10}

TrendMonths == {12}

TrendNames == {"Glucose", "Zinc"}

NoResponse == Response("none", "", NoBody, 0, "", "", NoBody)

\* the worker processes that serve requests over the same database file
Workers == {"w1", "w2"}

\* a worker's place in a database call: pc names the statement it comes to
\* next, session is the row it flushed, added the results it has added,
\* recent and latest what its queries have returned so far
Call(pc, user_id, results, session, added, recent, latest) ==
    [pc |-> pc, user_id |-> user_id, results |-> results, session |-> session,
     added |-> added, recent |-> recent, latest |-> latest]

Idle == Call("idle", "", <<>>, <<>>, <<>>, <<>>, {})

NoCalls == [w \in Workers |-> Idle]

Init ==
    /\ reference_ranges = SystemCatalog
    /\ test_sessions = <<>>
    /\ test_results = <<>>
    /\ now = 0
    /\ response = NoResponse
    /\ calls = NoCalls

Next ==
    \/ \E f \in SystemUploads : AnalyzePdf(f)
    \/ \E u \in Users, l \in HistoryLimits : GetHistory(u, l)
    \/ \E u \in Users, n \in TrendNames, m \in TrendMonths : GetTrends(u, n, m)
    \/ \E u \in Users : GetComparison(u)
    \/ \E u \in Users : GetStats(u)

Spec == Init /\ [][Next]_vars

----------------------------------------------------------------------------
(* The specification of the panel parser: any catalog of two entries, the  *)
(* first with any band and possibly a field short, and the documents that  *)
(* give a value to some, all or none of them.                              *)

MaxBand == 3            \* low and high of the first entry range over 1..MaxBand

ParseNames == {"HDL", "LDL", "Zinc"}

KeySets == {RequiredKeys, {"low", "high"}, {"high", "unit"}}

ParseCatalogs ==
    { << Entry(n, k, lo, hi, Units), Entry("Glucose", RequiredKeys, 2, 2, Units) >> :
        n \in ParseNames, k \in KeySets, lo \in 1..MaxBand, hi \in 1..MaxBand }

\* the line of a measurement, or no line when the value is negative
OptLine(name, value) == IF value < 0 THEN <<>> ELSE Line(name, value)

ParseTexts(catalog) ==
    { OptLine(catalog[1].test, a) \o OptLine(catalog[2].test, b) :
        a \in -1..(MaxBand + 1), b \in {-1, 2} }
        \cup { <<W("Name"), COLON, SP, W("Doe"), NL>> }

\* ranges.json as the loader finds it: missing, not JSON, or a JSON object
\* whose entries are those of catalog
RangesFile(kind, catalog) == [kind |-> kind, catalog |-> catalog]

RangesFiles ==
    {RangesFile("missing", <<>>), RangesFile("unparsable", <<>>)}
        \cup {RangesFile("json", c) : c \in ParseCatalogs}

LoadFailed == "Failed to load reference ranges"

\* main.py:50-64: the catalog, or the HTTPException raised
load_reference_ranges(file) ==
    IF file.kind \in {"missing", "unparsable"}
    THEN [ok |-> FALSE, error |-> LoadFailed, catalog |-> <<>>]
    ELSE [ok |-> TRUE, error |-> "", catalog |-> file.catalog]

\* parse_blood_tests applied to a text
ParseBloodTests(text) ==
    /\ response' = Response("parse", "", [text |-> text], 0, "", "",
                            parse_blood_tests(text, reference_ranges))
    /\ UNCHANGED <<reference_ranges, test_sessions, test_results, now, calls>>

\* main.py:66, the import of the module: the catalog is loaded, or the
\* exception of the loader ends the process before it serves anything
InitParse ==
    /\ \E file \in RangesFiles :
          \E loaded \in {load_reference_ranges(file)} :
              /\ reference_ranges = loaded.catalog
              /\ response = Response("load", "", file,
                                     IF loaded.ok THEN 200 ELSE 500,
                                     loaded.error, loaded.error, NoBody)
    /\ test_sessions = <<>>
    /\ test_results = <<>>
    /\ now = 0
    /\ calls = NoCalls

\* texts in which aliases and patterns of several ranks find a number
ValueTexts ==
    { <<W("Glucose"), SP, W("level"), SP, N(7), NL, W("GLU"), COLON, SP, N(9), NL>>,
      <<W("GLU"), EQ, N(4), NL, W("Glucose"), NL>>,
      <<W("GLU"), EQ, NL, N(4), NL, W("BS"), COLON, N(6), NL>>,
      <<W("BS"), DASH, N(3), NL>>,
      <<W("Blood"), SP, W("Sugar"), SP, N(8), NL, W("BS"), SP, N(3), NL>>,
      <<W("Zinc"), COLON, SP, N(5), NL, W("glucose"), SP, N(6), NL>>,
      <<W("Zn"), COLON, SP, N(5), NL, W("Sugar"), COLON, SP, N(6), NL>>,
      <<W("Name"), COLON, SP, W("Doe"), NL>> }

ValueNames == {"Glucose", "Zinc"}

\* parse_test_value applied to a text and a measurement name
ParseTestValue(text, test_name) ==
    /\ response' = Response("value", "", [text |-> text, test_name |-> test_name],
                            0, "", "",
                            [value |-> parse_test_value(text, test_name)])
    /\ UNCHANGED <<reference_ranges, test_sessions, test_results, now, calls>>

NextParse ==
    /\ reference_ranges # <<>>
    /\ \/ \E text \in ParseTexts(reference_ranges) : ParseBloodTests(text)
       \/ \E text \in ValueTexts, n \in ValueNames : ParseTestValue(text, n)

SpecParse == InitParse /\ [][NextParse]_vars

----------------------------------------------------------------------------
(* The specification of the reports: the history of user u1 is either a    *)
(* series of Glucose results of any values and ages, or two sessions of    *)
(* any results; a session of user u2 and, in the first case, an HDL result *)
(* of u1 come with it; in the second case an older session of u1 comes    *)
(* first.  A row of a user has a later timestamp than the rows of that     *)
(* user stored before it, or that of the session it is stored with.        *)

ReportsNow == 100       \* the day of the report requests

ReportsCatalog ==
    << Entry("Glucose", RequiredKeys, 20, 21, Units),
       Entry("HDL", RequiredKeys, 20, 21, Units),
       Entry("Hemoglobin", RequiredKeys, 20, 21, Units) >>

TrendValues == {0, 19, 20, 21, 22}

TrendAges == {61, 31, 30, 1}

CompareValues == {0, 20, 21, 22}

ReportMonths == {1, 2}

Visit(user_id, results, stamps) ==
    [user_id |-> user_id, results |-> results, stamps |-> stamps]

RECURSIVE stored_history(_)
\* the tables after the store_test_results calls of a sequence of visits
stored_history(visits) ==
    IF visits = <<>> THEN [sessions |-> <<>>, results |-> <<>>]
    ELSE LET before == stored_history(SubSeq(visits, 1, Len(visits) - 1))
             v == visits[Len(visits)]
         IN  store_test_results(before.sessions, before.results, v.user_id,
                 "report.pdf", v.results, generate_summary_message(v.results),
                 v.stamps)

\* the results parse_blood_tests gives for a document with the values doc
results_of(doc) ==
    LET present == SelectSeq(ReportsCatalog, LAMBDA ref : doc[ref.test] >= 0)
    IN  [i \in DOMAIN present |->
            blood_test_result(present[i], doc[present[i].test])]

OneResult(name, value) ==
    results_of([n \in CatalogNames(ReportsCatalog) |->
                   IF n = name THEN value ELSE -1])

\* series of Glucose results: a value and an age each, oldest first
TrendSeries ==
    UNION { {f \in [1..k -> TrendValues \X TrendAges] :
                \A i, j \in 1..k : i < j => f[i][2] > f[j][2]} :
            k \in 0..MaxSeries }

TrendVisits(series) ==
    [i \in DOMAIN series |->
        Visit("u1", OneResult("Glucose", series[i][1]),
              <<ReportsNow - series[i][2], ReportsNow - series[i][2]>>)]
        \o << Visit("u1", OneResult("HDL", 22), <<ReportsNow, ReportsNow>>),
              Visit("u2", OneResult("Glucose", 22), <<ReportsNow, ReportsNow>>) >>

\* the documents with a value for at least one catalog entry
CompareDocs ==
    {doc \in [CatalogNames(ReportsCatalog) -> CompareValues \cup {-1}] :
        \E n \in DOMAIN doc : doc[n] >= 0}

\* a session at day t, each of its results a day after the row before it
StampsFrom(t, results) == [i \in 1..(Len(results) + 1) |-> t + i - 1]

\* an older session of u1 with every measurement, then the two sessions
\* with a session of u2 between them
CompareVisits(first, second) ==
    LET older == results_of([n \in CatalogNames(ReportsCatalog) |-> 19])
    IN  << Visit("u1", older, StampsFrom(1, older)),
           Visit("u1", results_of(first), StampsFrom(11, results_of(first))),
           Visit("u2", OneResult("Glucose", 22), <<16, 17>>),
           Visit("u1", results_of(second), StampsFrom(21, results_of(second))) >>

InitReports ==
    /\ reference_ranges = ReportsCatalog
    /\ now = ReportsNow
    /\ response = NoResponse
    /\ calls = NoCalls
    /\ \E visits \in {TrendVisits(series) : series \in TrendSeries}
                        \cup {CompareVisits(a, b) : a, b \in CompareDocs} :
          \E stored \in {stored_history(visits)} :
              /\ test_sessions = stored.sessions
              /\ test_results = stored.results

NextReports ==
    \/ \E m \in ReportMonths : GetTrends("u1", "Glucose", m)
    \/ GetComparison("u1")

SpecReports == InitReports /\ [][NextReports]_vars

----------------------------------------------------------------------------
(* The specification of the database calls: workers that share the         *)
(* database file run store_test_results and compare_latest_tests one       *)
(* statement at a time.  An open transaction holds the write lock of the   *)
(* file and its rows are seen by no other connection before the commit; a  *)
(* query outside a transaction sees what is committed when it runs.  Every *)
(* row gets a later timestamp than the rows inserted before it.            *)

CallDocs ==
    { results_of([n \in CatalogNames(ReportsCatalog) |->
                     IF n = "Hemoglobin" THEN -1 ELSE 20]),
      OneResult("Glucose", 22) }

StorePcs == {"add"}

\* the session row as rollback would leave it on a database without
\* transactions
rollback_keeps_session(S, c) == Append(S, c.session[1])

\* database.py:131-134, db.rollback(): the session table after the
\* transaction of call c, with its flushed session row, is rolled back
rollback(S, c) == S

\* database.py:95-111: the session row is built, added and flushed
StoreFlush(w, user_id, results) ==
    /\ calls[w].pc = "idle"
    /\ \A v \in Workers : calls[v].pc \notin StorePcs
    /\ Len(test_sessions) < MaxSessions
    /\ calls' = [calls EXCEPT ![w] =
          Call("add", user_id, results,
               << new_session(Len(test_sessions) + 1, user_id, "report.pdf",
                      results, generate_summary_message(results), now + 1) >>,
               <<>>, <<>>, {})]
    /\ UNCHANGED <<reference_ranges, test_sessions, test_results, now, response>>

\* database.py:114-125: one pass of the loop over the results
StoreAdd(w) ==
    /\ calls[w].pc = "add"
    /\ Len(calls[w].added) < Len(calls[w].results)
    /\ calls' = [calls EXCEPT ![w].added =
                    Append(@, calls[w].results[Len(@) + 1])]
    /\ UNCHANGED <<reference_ranges, test_sessions, test_results, now, response>>

\* database.py:131-134: an exception in the loop or in the commit
StoreRaise(w) ==
    /\ calls[w].pc = "add"
    /\ test_sessions' = rollback(test_sessions, calls[w])
    /\ calls' = [calls EXCEPT ![w] = Idle]
    /\ response' = Response("store", calls[w].user_id, NoBody, 500, "",
                            DatabaseError, NoBody)
    /\ UNCHANGED <<reference_ranges, test_results, now>>

\* database.py:127-129: the commit, which inserts the result rows
StoreCommit(w) ==
    /\ calls[w].pc = "add"
    /\ calls[w].added = calls[w].results
    /\ LET c == calls[w]
           t0 == c.session[1].created_at
           stamps == [i \in 1..(Len(c.added) + 1) |-> t0 + i - 1]
           stored == store_test_results(test_sessions, test_results, c.user_id,
                         "report.pdf", c.added,
                         generate_summary_message(c.added), stamps)
       IN  /\ test_sessions' = stored.sessions
           /\ test_results' = stored.results
           /\ now' = stamps[Len(stamps)]
           /\ response' = Response("store", c.user_id, NoBody, 200, "", "",
                                   [session_id |-> stored.session_id])
    /\ calls' = [calls EXCEPT ![w] = Idle]
    /\ UNCHANGED reference_ranges

\* database.py:305-316: the query of the two most recent sessions
CompareSessions(w, user_id) ==
    /\ calls[w].pc = "idle"
    /\ \E recent \in recent_sessions(test_sessions, user_id) :
          IF Len(recent) < 2
          THEN /\ response' = Response("comparison", user_id, NoBody, 200,
                                       "", "", NoComparison)
               /\ UNCHANGED calls
          ELSE /\ calls' = [calls EXCEPT ![w] =
                      Call("latest", user_id, <<>>, <<>>, <<>>, recent, {})]
               /\ UNCHANGED response
    /\ UNCHANGED <<reference_ranges, test_sessions, test_results, now>>

\* database.py:319-322: the query of the latest results
CompareLatest(w) ==
    /\ calls[w].pc = "latest"
    /\ calls' = [calls EXCEPT ![w].pc = "previous",
                              ![w].latest = latest_results(test_results,
                                  calls[w].user_id, calls[w].recent[1])]
    /\ UNCHANGED <<reference_ranges, test_sessions, test_results, now, response>>

\* database.py:324-422: the query of the previous results and the report;
\* the request of the response names the two sessions the call selected
ComparePrevious(w) ==
    /\ calls[w].pc = "previous"
    /\ LET c == calls[w]
           previous == previous_results(test_results, c.user_id,
                                        c.recent[1], c.recent[2])
           common_tests == TestNames(c.latest) \cap TestNames(previous)
       IN  \E ld \in lookup_dicts(c.latest), pd \in lookup_dicts(previous),
              order \in Perms(common_tests) :
               response' = Response("comparison", c.user_id,
                   [latest |-> c.recent[1].id, previous |-> c.recent[2].id],
                   200, "", "",
                   comparison_report(c.recent[1], c.recent[2], ld, pd, order))
    /\ calls' = [calls EXCEPT ![w] = Idle]
    /\ UNCHANGED <<reference_ranges, test_sessions, test_results, now>>

InitCalls ==
    /\ reference_ranges = ReportsCatalog
    /\ test_sessions = <<>>
    /\ test_results = <<>>
    /\ now = 0
    /\ response = NoResponse
    /\ calls = NoCalls

NextCalls ==
    \E w \in Workers :
        \/ \E u \in Users, results \in CallDocs : StoreFlush(w, u, results)
        \/ StoreAdd(w)
        \/ StoreRaise(w)
        \/ StoreCommit(w)
        \/ \E u \in Users : CompareSessions(w, u)
        \/ CompareLatest(w)
        \/ ComparePrevious(w)

SpecCalls == InitCalls /\ [][NextCalls]_vars

----------------------------------------------------------------------------
(* Properties of the panel parser, checked under SpecParse *)

\* the entry of the catalog for a measurement name
EntryOf(catalog, test) ==
    catalog[CHOOSE i \in DOMAIN catalog : catalog[i].test = test]

\* C1: every result of parse_blood_tests for a catalog entry with
\* low <= high has status_short Low when its value is below low, High when
\* it is above high and Normal otherwise, both bounds included in Normal.
C1_StatusShortByRange ==
    (response.op = "parse" /\ response.body.ok) =>
        \A i \in DOMAIN response.body.results :
            LET r == response.body.results[i]
                ref == EntryOf(reference_ranges, r.test)
            IN  ref.low <= ref.high =>
                    /\ r.value < ref.low => r.status_short = "Low"
                    /\ r.value > ref.high => r.status_short = "High"
                    /\ (ref.low <= r.value /\ r.value <= ref.high)
                           => r.status_short = "Normal"
                    /\ r.status_short \in {"Low", "High", "Normal"}

\* a result whose value is the upper bound of a range wider than one point
C1_Witness ==
    /\ response.op = "parse"
    /\ response.body.ok
    /\ \E i \in DOMAIN response.body.results :
          LET r == response.body.results[i]
              ref == EntryOf(reference_ranges, r.test)
          IN  /\ ref.low < ref.high
              /\ r.value = ref.high
              /\ r.status_short = "Normal"

\* C17: loading the catalog fails when ranges.json is missing, is not
\* JSON or has an entry without low, high or unit, and parse_blood_tests
\* never runs with a catalog entry that lacks one of these fields.
C17_CatalogValidatedAtLoad ==
    /\ response.op = "load" =>
           (response.status = 500) =
               \/ response.request.kind \in {"missing", "unparsable"}
               \/ \E i \in DOMAIN response.request.catalog :
                      ~(RequiredKeys \subseteq response.request.catalog[i].keys)
    /\ response.op = "parse" =>
           \A i \in DOMAIN reference_ranges :
               RequiredKeys \subseteq reference_ranges[i].keys

\* C19: parse_blood_tests returns one result for each catalog entry whose
\* value was extracted from the text and none for the others, in the order
\* of the catalog.
C19_OneResultPerExtractedEntry ==
    (response.op = "parse" /\ response.body.ok) =>
        LET extracted ==
                SelectSeq(reference_ranges,
                    LAMBDA ref : parse_test_value(response.request.text, ref.test) # <<>>)
        IN  /\ Len(response.body.results) = Len(extracted)
            /\ \A i \in DOMAIN extracted :
                   /\ response.body.results[i].test = extracted[i].test
                   /\ <<response.body.results[i].value>>
                          = parse_test_value(response.request.text, extracted[i].test)

\* the pairs (rank of the alias, rank of the pattern) that find a number
\* in a text, for a list of aliases
MatchingPairs(text, variants) ==
    {h \in (1..Len(variants)) \X (1..5) :
        re_search(h[2], variants[h[1]], text) # <<>>}

\* the first of a set of pairs: lowest alias rank, then lowest pattern rank
FirstPair(pairs) ==
    CHOOSE h \in pairs :
        \A g \in pairs : h[1] < g[1] \/ (h[1] = g[1] /\ h[2] <= g[2])

\* C20: parse_test_value returns the number captured by the first pair of
\* alias and pattern that matches, aliases in their listed order and the
\* five patterns in their order within an alias, and nothing exactly when
\* no pair matches; a name without an alias list has its own name as only
\* alias.
C20_FirstAliasThenFirstPattern ==
    response.op = "value" =>
        LET text == response.request.text
            name == response.request.test_name
            variants == IF name = "Zinc" THEN << <<"Zinc">> >>
                        ELSE test_variants(name)
            pairs == MatchingPairs(text, variants)
        IN  /\ (response.body.value = <<>>) = (pairs = {})
            /\ pairs # {} =>
                   response.body.value
                       = re_search(FirstPair(pairs)[2],
                                   variants[FirstPair(pairs)[1]], text)

\* the number comes from the third pattern of the first alias although the
\* first pattern matches a later alias with another number
C20_Witness ==
    /\ response.op = "value"
    /\ response.request.test_name = "Glucose"
    /\ LET text == response.request.text
           variants == test_variants("Glucose")
           pairs == MatchingPairs(text, variants)
       IN  /\ <<1, 3>> \in pairs
           /\ <<1, 1>> \notin pairs
           /\ <<2, 1>> \in pairs
           /\ re_search(1, variants[2], text) # response.body.value
           /\ response.body.value = re_search(3, variants[1], text)

----------------------------------------------------------------------------
(* Properties of the service, checked under Spec *)

\* the uploads that pass the checks of analyze_pdf and hold no number
NoMeasurementUploads ==
    {f \in SystemUploads :
        /\ is_pdf_name(f.filename)
        /\ f.size <= MaxUploadBytes
        /\ \E i \in DOMAIN f.text : ~IsSpace(f.text[i])
        /\ \A i \in DOMAIN f.text : f.text[i].k # "num"}

\* C2: an analyze request for a document in which no catalog entry has a
\* value ends with the no-measurements failure of parse_blood_tests and
\* leaves the session table and the result table as they were.
C2_NoMeasurementsRecordsNothing ==
    [][(response'.op = "analyze" /\ response'.request \in NoMeasurementUploads)
          => /\ response'.status = 500
             /\ response'.logged = NoValues
             /\ test_sessions' = test_sessions
             /\ test_results' = test_results]_vars

\* such a request refused while the store holds earlier sessions
C2_Witness ==
    /\ response.op = "analyze"
    /\ response.request \in NoMeasurementUploads
    /\ response.logged = NoValues
    /\ Len(test_sessions) >= 1
    /\ Len(test_results) >= 1

\* the number of stored sessions of a user
SessionCount(user_id) ==
    Cardinality({i \in DOMAIN test_sessions : test_sessions[i].user_id = user_id})

\* the comparison reports a response carries
ComparisonsShown ==
    IF response.op = "comparison" /\ response.status = 200 THEN {response.body}
    ELSE IF response.op = "analyze" /\ response.status = 200
    THEN {response.body.comparison}
    ELSE {}

\* C6: compare_latest_tests answers normally with has_comparison false when
\* the user has no or one stored session and with has_comparison true when
\* the user has two or more.
C6_HasComparisonIffTwoSessions ==
    /\ response.op = "comparison" => response.status = 200
    /\ \A c \in ComparisonsShown :
          c.has_comparison = (SessionCount(response.user) >= 2)

\* a user with one session asks while another user has a session too
C6_Witness ==
    /\ response.op = "comparison"
    /\ response.status = 200
    /\ ~response.body.has_comparison
    /\ SessionCount(response.user) = 1
    /\ Len(test_sessions) >= 2

\* the sessions of a user, and the measurement names stored with a session
SessionsOf(user_id) ==
    {test_sessions[i] : i \in {j \in DOMAIN test_sessions :
                                   test_sessions[j].user_id = user_id}}

StoredWith(session) ==
    {test_results[i] : i \in {j \in DOMAIN test_results :
                                  test_results[j].stored_with = session.id}}

NamesOf(session) == {r.test_name : r \in StoredWith(session)}

\* latest and previous are two most recent sessions of the user
TwoMostRecent(user_id, latest, previous) ==
    /\ latest \in SessionsOf(user_id)
    /\ previous \in SessionsOf(user_id)
    /\ latest # previous
    /\ latest.created_at >= previous.created_at
    /\ \A s \in SessionsOf(user_id) \ {latest, previous} :
          s.created_at <= previous.created_at

\* C7: a comparison report has exactly one diff record for each measurement
\* name stored with both of the user's two most recent sessions and none
\* for any other name; total_compared is the number of those names and
\* improvements + deteriorations + stable = total_compared.
C7_OneDiffPerSharedName ==
    \A c \in ComparisonsShown :
        c.has_comparison =>
            /\ c.improvements + c.deteriorations + c.stable = c.total_compared
            /\ \E latest, previous \in SessionsOf(response.user) :
                  /\ TwoMostRecent(response.user, latest, previous)
                  /\ LET shared == NamesOf(latest) \cap NamesOf(previous)
                     IN  /\ c.total_compared = Cardinality(shared)
                         /\ Len(c.comparisons) = Cardinality(shared)
                         /\ {c.comparisons[i].test_name :
                                 i \in DOMAIN c.comparisons} = shared

----------------------------------------------------------------------------
(* Properties of the reports, checked under SpecReports *)

\* the Glucose results of u1 inside the window of a trends request
WindowRows ==
    {test_results[i] : i \in {j \in DOMAIN test_results :
        /\ test_results[j].user_id = response.user
        /\ test_results[j].test_name = response.request.test_name
        /\ test_results[j].created_at >=
               now - response.request.months * DaysPerMonth}}

\* the row of a set with the latest timestamp
Newest(rows) == CHOOSE r \in rows : \A q \in rows : q.created_at <= r.created_at

IsTrends == response.op = "trends" /\ response.status = 200

\* C3: get_test_trends answers no_data for an empty window, insufficient_data
\* with the single value as latest value for a window of one result, and
\* otherwise takes latest and previous value, change and percent change from
\* the two most recent results of the window alone.
C3_TrendFromTwoMostRecent ==
    IsTrends =>
        LET n == Cardinality(WindowRows)
            t == response.body
        IN  /\ n = 0 => t.trend = "no_data"
            /\ n = 1 => /\ t.trend = "insufficient_data"
                        /\ t.latest_value = Newest(WindowRows).value
            /\ n >= 2 =>
                  LET b == Newest(WindowRows)
                      a == Newest(WindowRows \ {b})
                  IN  /\ t.trend \notin {"no_data", "insufficient_data"}
                      /\ t.latest_value = b.value
                      /\ t.previous_value = a.value
                      /\ t.change = b.value - a.value
                      /\ a.value # 0 =>
                            t.percent_change.num * a.value
                                = (b.value - a.value) * 100 * t.percent_change.den
                      /\ t.percent_change.den # 0
                      /\ t.total_measurements = n

\* three results in the window, the oldest unlike the other two, and a
\* trend that is not stable
C3_Witness ==
    /\ IsTrends
    /\ Cardinality(WindowRows) = 3
    /\ response.body.trend = "increasing"
    /\ response.body.values[1] > response.body.latest_value
    /\ response.body.values[1] # response.body.previous_value

\* C4: with two or more points the trend is stable when |percent change| < 5
\* whatever the sign of the change, increasing when |percent change| >= 5
\* and latest > previous, decreasing when |percent change| >= 5 and
\* latest < previous, and never anything else.
C4_TrendByThreshold ==
    (IsTrends /\ Cardinality(WindowRows) >= 2) =>
        LET t == response.body
            small == Abs(t.percent_change.num) < 5 * Abs(t.percent_change.den)
        IN  /\ t.trend \in {"stable", "increasing", "decreasing"}
            /\ small => t.trend = "stable"
            /\ (~small /\ t.latest_value > t.previous_value)
                   => t.trend = "increasing"
            /\ (~small /\ t.latest_value < t.previous_value)
                   => t.trend = "decreasing"
            /\ t.trend = "stable" => small

\* a fall of less than 5 percent reported as stable
C4_Witness ==
    /\ IsTrends
    /\ Cardinality(WindowRows) >= 2
    /\ response.body.trend = "stable"
    /\ response.body.change < 0

\* the diff records of a comparison response
DiffRecords ==
    IF response.op = "comparison" /\ response.body.has_comparison
    THEN {response.body.comparisons[i] : i \in DOMAIN response.body.comparisons}
    ELSE {}

\* C5: in get_test_trends and in compare_latest_tests a previous value of 0
\* gives a percent change of 0, whatever the latest value, and the
\* measurement is classified stable.
C5_ZeroPreviousIsStable ==
    /\ (IsTrends /\ Cardinality(WindowRows) >= 2
            /\ response.body.previous_value = 0) =>
           /\ response.body.percent_change.num = 0
           /\ response.body.percent_change.den # 0
           /\ response.body.trend = "stable"
    /\ \A c \in DiffRecords :
           c.previous_value = 0 =>
               /\ c.percent_change.num = 0
               /\ c.percent_change.den # 0
               /\ c.change_type = "stable"

\* a comparison of a latest value above 0 with a previous value of 0
C5_Witness ==
    \E c \in DiffRecords :
        /\ c.previous_value = 0
        /\ c.latest_value > 0
        /\ c.change_type = "stable"

\* the direction of a change in the favourable-direction table
Favourable(c) ==
    \/ c.test_name \in {"Total Cholesterol", "LDL", "Triglycerides",
                        "Glucose", "HbA1c"} /\ c.change < 0
    \/ c.test_name = "HDL" /\ c.change > 0

Unfavourable(c) ==
    \/ c.test_name \in {"Total Cholesterol", "LDL", "Triglycerides",
                        "Glucose", "HbA1c"} /\ c.change > 0
    \/ c.test_name = "HDL" /\ c.change < 0

\* C8: improvements counts the shared measurements whose change is not
\* stable and in the favourable direction of the table, deteriorations
\* those whose change is not stable and in the unfavourable direction of
\* the table; a stable change adds to neither.
C8_CountsByFavourableDirection ==
    (response.op = "comparison" /\ response.body.has_comparison) =>
        /\ response.body.improvements =
               Cardinality({c \in DiffRecords :
                               c.change_type # "stable" /\ Favourable(c)})
        /\ response.body.deteriorations =
               Cardinality({c \in DiffRecords :
                               c.change_type # "stable" /\ Unfavourable(c)})

\* C9: the verdict is improving when improvements > deteriorations,
\* concerning when deteriorations > improvements and mixed when the two are
\* equal, whatever the stable count.
C9_VerdictFromCounts ==
    (response.op = "comparison" /\ response.body.has_comparison) =>
        LET c == response.body
        IN  /\ c.improvements > c.deteriorations => c.overall_trend = "improving"
            /\ c.deteriorations > c.improvements => c.overall_trend = "concerning"
            /\ c.improvements = c.deteriorations => c.overall_trend = "mixed"

\* no improvement, no deterioration and a stable measurement: mixed
C9_Witness ==
    /\ response.op = "comparison"
    /\ response.body.has_comparison
    /\ response.body.improvements = 0
    /\ response.body.deteriorations = 0
    /\ response.body.stable >= 1
    /\ response.body.overall_trend = "mixed"

\* the value stored with a session for a measurement name
StoredValue(session, test_name) ==
    (CHOOSE r \in StoredWith(session) : r.test_name = test_name).value

\* C10: the diff list is in order of non-increasing |percent_change| and
\* holds the records of the shared measurements, each once.
C10_SortedByAbsPercentChange ==
    (response.op = "comparison" /\ response.body.has_comparison) =>
        LET list == response.body.comparisons
            latest == Newest(SessionsOf(response.user))
            previous == Newest(SessionsOf(response.user) \ {latest})
            shared == NamesOf(latest) \cap NamesOf(previous)
        IN  /\ \A i \in 1..(Len(list) - 1) :
                  Abs(list[i].percent_change.num) * Abs(list[i + 1].percent_change.den)
                      >= Abs(list[i + 1].percent_change.num)
                             * Abs(list[i].percent_change.den)
            /\ Len(list) = Cardinality(shared)
            /\ \A n \in shared :
                  \E i \in DOMAIN list :
                      /\ list[i].test_name = n
                      /\ list[i].latest_value = StoredValue(latest, n)
                      /\ list[i].previous_value = StoredValue(previous, n)
                      /\ list[i].change = StoredValue(latest, n)
                                              - StoredValue(previous, n)

\* three records of three different sizes of change
C10_Witness ==
    /\ response.op = "comparison"
    /\ response.body.has_comparison
    /\ LET list == response.body.comparisons
       IN  /\ Len(list) = 3
           /\ \A i \in 1..2 :
                 Abs(list[i].percent_change.num) * Abs(list[i + 1].percent_change.den)
                     > Abs(list[i + 1].percent_change.num)
                           * Abs(list[i].percent_change.den)

\* the diff record of a measurement with the roles of the two sessions
\* swapped: the latest row of c taken as previous and the previous as latest
Swapped(c) ==
    comparison_of(c.test_name,
        [value |-> c.previous_value, unit |-> c.unit, status |-> c.previous_status],
        [value |-> c.latest_value, unit |-> c.unit, status |-> c.latest_status])

\* C11: for a measurement shared by two sessions, the percent change with
\* the roles of the sessions swapped has the opposite sign and the same
\* absolute value, and both are stable or both are not.
C11_SwapInvertsPercentChange ==
    \A c \in DiffRecords :
        /\ c.percent_change.num * Swapped(c).percent_change.den
               = -(Swapped(c).percent_change.num * c.percent_change.den)
        /\ (c.change_type = "stable") = (Swapped(c).change_type = "stable")

----------------------------------------------------------------------------
(* Properties of the database calls, checked under SpecCalls *)

\* C12: a session is recorded atomically with its results: whatever the
\* other workers have in progress, and after any store_test_results call
\* has returned or raised, every session row that can be read has all of
\* its result rows, and every result row that can be read has its session.
C12_SessionWithAllResults ==
    /\ \A i \in DOMAIN test_sessions :
          /\ test_sessions[i].total_tests >= 1
          /\ Cardinality({j \in DOMAIN test_results :
                            test_results[j].stored_with = test_sessions[i].id})
                 = test_sessions[i].total_tests
    /\ \A j \in DOMAIN test_results :
          \E i \in DOMAIN test_sessions :
              test_sessions[i].id = test_results[j].stored_with

\* a call has raised while the store holds sessions, and another call has
\* flushed its session and added a result without having committed
C12_Witness ==
    /\ response.op = "store"
    /\ response.status = 500
    /\ Len(test_sessions) >= 1
    /\ \E w \in Workers : calls[w].pc = "add" /\ Len(calls[w].added) >= 1

----------------------------------------------------------------------------
(* Properties of the service, checked under Spec (continued) *)

IsPrefix(s, t) == Len(s) <= Len(t) /\ SubSeq(t, 1, Len(s)) = s

\* C13: the history is append-only: every step keeps each stored session
\* and result as it was, the read operations change neither table, and
\* only an analyze request that stores adds rows.
C13_AppendOnly ==
    [][/\ IsPrefix(test_sessions, test_sessions')
       /\ IsPrefix(test_results, test_results')
       /\ response'.op \in {"history", "trends", "comparison", "stats"}
              => (test_sessions' = test_sessions /\ test_results' = test_results)
       /\ (response'.op = "analyze" /\ response'.status # 200)
              => (test_sessions' = test_sessions /\ test_results' = test_results)
      ]_vars

\* a read request answered over a history of two sessions or more
C13_Witness ==
    /\ response.op \in {"history", "trends", "comparison", "stats"}
    /\ Len(test_sessions) >= 2
    /\ Len(test_results) >= 2

----------------------------------------------------------------------------
(* Properties of the reports, checked under SpecReports (continued) *)

\* the store_test_results calls of a user ran one after another and every
\* row got a later timestamp than the rows inserted before it
StrictlyLater(user_id) ==
    /\ \A s \in SessionsOf(user_id) :
          \A r \in StoredWith(s) : r.created_at > s.created_at
    /\ \A s, t \in SessionsOf(user_id) :
          s.id < t.id =>
              /\ s.created_at < t.created_at
              /\ \A r \in StoredWith(s) : r.created_at < t.created_at

\* C14: when the rows of a user have strictly increasing timestamps in the
\* order of their insertion, compare_latest_tests takes as latest results
\* exactly the results stored with the most recent session and as previous
\* results exactly those stored with the second most recent session, and
\* its diff records hold the values of those rows.
C14_ResultSetsOfTheTwoSessions ==
    \A u \in Users :
        (StrictlyLater(u) /\ Cardinality(SessionsOf(u)) >= 2) =>
            LET latest == Newest(SessionsOf(u))
                previous == Newest(SessionsOf(u) \ {latest})
            IN  /\ latest_results(test_results, u, latest) = StoredWith(latest)
                /\ previous_results(test_results, u, latest, previous)
                       = StoredWith(previous)
                /\ (response.user = u) =>
                       \A c \in DiffRecords :
                           /\ c.test_name \in NamesOf(latest) \cap NamesOf(previous)
                           /\ c.latest_value = StoredValue(latest, c.test_name)
                           /\ c.previous_value = StoredValue(previous, c.test_name)

\* a comparison over three sessions of strictly increasing timestamps, the
\* oldest holding a measurement that the previous session lacks
C14_Witness ==
    /\ response.op = "comparison"
    /\ response.body.has_comparison
    /\ StrictlyLater(response.user)
    /\ Cardinality(SessionsOf(response.user)) >= 3
    /\ LET latest == Newest(SessionsOf(response.user))
           previous == Newest(SessionsOf(response.user) \ {latest})
           oldest == Newest(SessionsOf(response.user) \ {latest, previous})
       IN  /\ NamesOf(oldest) \ NamesOf(previous) # {}
           /\ response.body.total_compared >= 1

----------------------------------------------------------------------------
(* Properties of the database calls, checked under SpecCalls (continued) *)

SessionWithId(id) ==
    test_sessions[CHOOSE i \in DOMAIN test_sessions : test_sessions[i].id = id]

\* C15: a compare_latest_tests call reads a consistent snapshot: whatever
\* store_test_results calls commit between its session query and its
\* result queries, its report has one diff record for each measurement
\* stored with both of the sessions it selected, with the values stored
\* with those two sessions, and no other record.
C15_ReportFromSelectedSessions ==
    (response.op = "comparison" /\ response.body.has_comparison) =>
        LET latest == SessionWithId(response.request.latest)
            previous == SessionWithId(response.request.previous)
        IN  /\ {c.test_name : c \in DiffRecords}
                   = NamesOf(latest) \cap NamesOf(previous)
            /\ \A c \in DiffRecords :
                   /\ c.test_name \in NamesOf(latest) \cap NamesOf(previous)
                   /\ c.latest_value = StoredValue(latest, c.test_name)
                   /\ c.previous_value = StoredValue(previous, c.test_name)

----------------------------------------------------------------------------
(* Properties of the service, checked under Spec (continued) *)

\* the rows of a table that belong to a user, in the order of the table
Own(T, user_id) == SelectSeq(T, LAMBDA r : r.user_id = user_id)

\* C16: what a user is shown depends on that user's own sessions and
\* results alone: each read operation gives on the whole store what it
\* gives on the user's rows without the rows of the other users, and so do
\* the comparison and the statistics of an analyze response.
C16_OwnRowsDecideReports ==
    LET u == response.user
        S == Own(test_sessions, u)
        R == Own(test_results, u)
    IN  /\ \A v \in Users :
              /\ compare_latest_tests(test_sessions, test_results, v)
                     = compare_latest_tests(Own(test_sessions, v),
                                            Own(test_results, v), v)
              /\ get_user_stats(test_sessions, test_results, v)
                     = get_user_stats(Own(test_sessions, v),
                                      Own(test_results, v), v)
              /\ \A l \in HistoryLimits :
                     get_user_history(test_sessions, v, l)
                         = get_user_history(Own(test_sessions, v), v, l)
              /\ \A n \in TrendNames, m \in TrendMonths :
                     get_test_trends(test_results, v, n, m, now)
                         = get_test_trends(Own(test_results, v), v, n, m, now)
        /\ response.op = "comparison" =>
               response.body \in compare_latest_tests(S, R, u)
        /\ response.op = "stats" => response.body = get_user_stats(S, R, u)
        /\ response.op = "history" =>
               /\ response.body.history
                      \in get_user_history(S, u, response.request.limit)
               /\ response.body.user_stats = get_user_stats(S, R, u)
        /\ (response.op = "trends" /\ response.status = 200) =>
               response.body \in get_test_trends(R, u,
                   response.request.test_name, response.request.months, now)
        /\ (response.op = "analyze" /\ response.status = 200) =>
               /\ response.body.comparison \in compare_latest_tests(S, R, u)
               /\ response.body.user_stats = get_user_stats(S, R, u)

\* a comparison of two sessions of a user, shown while the last rows of
\* the store are those of another user
C16_Witness ==
    /\ response.op = "comparison"
    /\ response.body.has_comparison
    /\ response.body.total_compared >= 1
    /\ Len(test_results) >= 3
    /\ test_results[Len(test_results)].user_id # response.user

\* C18: the refusal of a document without measurements and the failure
\* of the storage never reach the caller with the same status and detail.
C18_NoMeasurementsToldApart ==
    [][(/\ response.op = "analyze"
        /\ response'.op = "analyze"
        /\ response.logged = NoValues
        /\ response'.logged = DatabaseError)
          => <<response.status, response.detail>>
                 # <<response'.status, response'.detail>>]_vars

----------------------------------------------------------------------------
(* Properties of the reports, checked under SpecReports (continued) *)

\* the results of the user and measurement of a trends request that lie in
\* its window, in the order they were stored, which is oldest first
WindowSeq ==
    SelectSeq(test_results, LAMBDA r :
        /\ r.user_id = response.user
        /\ r.test_name = response.request.test_name
        /\ r.created_at >= now - response.request.months * DaysPerMonth)

\* the store without the results that are older than the window of the
\* trends request
WithoutOlder ==
    SelectSeq(test_results, LAMBDA r :
        r.created_at >= now - response.request.months * DaysPerMonth)

\* C21: get_test_trends uses exactly the results of the user and test name
\* stamped at or after now - months * 30 days, oldest first: the report is
\* no_data for none, insufficient_data for one, and otherwise lists their
\* values and dates in that order, counts them and reads latest and
\* previous value from the last two; it is the report of the store with
\* every older result removed.
C21_TrendFromWindowOnly ==
    IsTrends =>
        LET w == WindowSeq
            t == response.body
        IN  /\ (t.trend = "no_data") = (Len(w) = 0)
            /\ (t.trend = "insufficient_data") = (Len(w) = 1)
            /\ Len(w) = 1 => t.latest_value = w[1].value
            /\ Len(w) >= 2 =>
                  /\ t.values = [i \in DOMAIN w |-> w[i].value]
                  /\ t.dates = [i \in DOMAIN w |-> w[i].created_at]
                  /\ \A i \in 1..(Len(w) - 1) : t.dates[i] <= t.dates[i + 1]
                  /\ t.total_measurements = Len(w)
                  /\ t.latest_value = w[Len(w)].value
                  /\ t.previous_value = w[Len(w) - 1].value
            /\ t \in get_test_trends(WithoutOlder, response.user,
                                     response.request.test_name,
                                     response.request.months, now)

\* one result on the instant of the cutoff and an older one with another
\* value: the report is insufficient_data with the value on the cutoff
C21_Witness ==
    /\ IsTrends
    /\ response.body.trend = "insufficient_data"
    /\ Len(WindowSeq) = 1
    /\ WindowSeq[1].created_at = now - response.request.months * DaysPerMonth
    /\ \E i \in DOMAIN test_results :
          /\ test_results[i].user_id = response.user
          /\ test_results[i].test_name = response.request.test_name
          /\ test_results[i].created_at < WindowSeq[1].created_at
          /\ test_results[i].value # WindowSeq[1].value
    /\ response.body.latest_value = WindowSeq[1].value

----------------------------------------------------------------------------
(* Properties of the service, checked under Spec (continued) *)

\* C22: two sessions of a user with the same timestamp are kept apart: a
\* comparison of two such sessions has a diff record for each measurement
\* stored with both, with the value stored with the previous session as
\* previous value and the one stored with the latest as latest value.
C22_SameInstantKeptApart ==
    \A c \in ComparisonsShown :
        (c.has_comparison /\ c.latest_date = c.previous_date) =>
            \E latest, previous \in SessionsOf(response.user) :
                /\ TwoMostRecent(response.user, latest, previous)
                /\ latest.created_at = c.latest_date
                /\ previous.created_at = c.previous_date
                /\ {c.comparisons[i].test_name : i \in DOMAIN c.comparisons}
                       = NamesOf(latest) \cap NamesOf(previous)
                /\ \A i \in DOMAIN c.comparisons :
                      LET d == c.comparisons[i]
                      IN  /\ d.previous_value = StoredValue(previous, d.test_name)
                          /\ d.latest_value = StoredValue(latest, d.test_name)

----------------------------------------------------------------------------
(* Properties of the panel parser, checked under SpecParse (continued) *)

\* the catalog entries whose value is found in a text and whose result can
\* be built
Succeeded(text, catalog) ==
    {i \in DOMAIN catalog :
        /\ parse_test_value(text, catalog[i].test) # <<>>
        /\ RequiredKeys \subseteq catalog[i].keys}

\* C23: parse_blood_tests never returns an empty result list: for a text
\* that is not blank it raises the no-measurements failure exactly when no
\* catalog entry was both extracted and turned into a result, and
\* otherwise returns at least one result; every stored session has
\* total_tests >= 1.
C23_NeverEmptyResults ==
    /\ (response.op = "parse" /\ ~is_blank(response.request.text)) =>
           LET none == Succeeded(response.request.text, reference_ranges) = {}
           IN  /\ response.body.ok => response.body.results # <<>>
               /\ none => /\ ~response.body.ok
                          /\ response.body.error = NoValues
               /\ ~none => response.body.ok
    /\ \A i \in DOMAIN test_sessions : test_sessions[i].total_tests >= 1

----------------------------------------------------------------------------
(* Properties of the service, checked under Spec (continued) *)

RECURSIVE SumTotalTests(_, _)
\* the sum of total_tests over the sessions of a user among the first n
\* rows of the session table
SumTotalTests(user_id, n) ==
    IF n = 0 THEN 0
    ELSE SumTotalTests(user_id, n - 1)
             + (IF test_sessions[n].user_id = user_id
                THEN test_sessions[n].total_tests ELSE 0)

\* the user statistics a response carries
StatsShown ==
    IF response.status # 200 THEN {}
    ELSE IF response.op = "stats" THEN {response.body}
    ELSE IF response.op \in {"analyze", "history"} THEN {response.body.user_stats}
    ELSE {}

\* C24: every stored session has total_tests = normal_count +
\* abnormal_count, total_tests result rows stored with it and normal_count
\* of them with status Normal; the total_tests of get_user_stats is the sum
\* of total_tests over the user's sessions and has_data is false exactly
\* when the user has no session.
C24_SessionCountsAddUp ==
    /\ \A i \in DOMAIN test_sessions :
          LET s == test_sessions[i]
          IN  /\ s.total_tests = s.normal_count + s.abnormal_count
              /\ s.total_tests = Cardinality(StoredWith(s))
              /\ s.normal_count
                     = Cardinality({r \in StoredWith(s) : r.status = "Normal"})
    /\ \A stats \in StatsShown :
          /\ stats.has_data = (SessionCount(response.user) > 0)
          /\ stats.has_data =>
                 stats.total_tests
                     = SumTotalTests(response.user, Len(test_sessions))

\* a user with a session of two normal results and a session of one high
\* result reads the statistics while the other user has a session too
C24_Witness ==
    /\ response.op = "stats"
    /\ response.body.has_data
    /\ response.body.total_tests = 3
    /\ response.body.session_count = 2
    /\ Len(test_sessions) = 3
    /\ \E s \in SessionsOf(response.user) :
          s.normal_count = 2 /\ s.abnormal_count = 0
    /\ \E s \in SessionsOf(response.user) :
          s.normal_count = 0 /\ s.abnormal_count = 1

----------------------------------------------------------------------------
(* Properties of the panel parser, checked under SpecParse (continued) *)

\* C25: for every measurement and value the message of get_status_message
\* begins with the label, Low, Normal or High, that parse_blood_tests
\* gives the value as status_short, HDL, LDL and eGFR included.
C25_MessageLabelIsStatusShort ==
    (response.op = "parse" /\ response.body.ok) =>
        \A i \in DOMAIN response.body.results :
            response.body.results[i].status.label
                = response.body.results[i].status_short

====
